---- MODULE Spec2Model ----
(***************************************************************************)
(* qp-maker: the question extractors of app.py, app1.py and app2.py       *)
(* (Spec), the session state of app.py (SpecApp) and of app1.py and       *)
(* app2.py (SpecPaged), and the two-column layout loop of app1.py         *)
(* (SpecTable).                                                           *)
(*                                                                         *)
(* A text is a sequence of symbols.  A symbol is one character, except     *)
(* that the 15-character literal of the answer marker is one symbol        *)
(* ("Correct Answer:", and "correct answer:" for its lower-case spelling)  *)
(* and the three-backtick code fence is one symbol ("fence").  The regular *)
(* expressions of the source are sequences of nodes, matched by a          *)
(* backtracking matcher with the priorities of Python's re module (lazy    *)
(* quantifiers try the shortest repetition first, greedy ones the          *)
(* longest).                                                               *)
(***************************************************************************)
EXTENDS Integers, Sequences, FiniteSets, TLC

\* the extractors: a response and the result of applying one extractor to it
VARIABLES blocks, wrapped, raw_text, fn, result

\* st.session_state and what the last run of the script showed the user
VARIABLES app, generated_questions, all_generated_questions, current_page,
          selected_questions, button_states, event

\* the two-column layout loop of create_word_document_from_selection (app1.py)
VARIABLES num_questions, q_index, current_row, current_col, cells, raised

parseVars   == <<blocks, wrapped, raw_text, fn, result>>
sessionVars == <<app, generated_questions, all_generated_questions,
                 current_page, selected_questions, button_states, event>>
tableVars   == <<num_questions, q_index, current_row, current_col, cells, raised>>

vars == <<parseVars, sessionVars, tableVars>>

(***************************************************************************)
(* Symbols and character classes                                           *)
(***************************************************************************)
Upper == {"A", "B", "C", "D"}
Lower == {"a", "b", "c", "d"}
Digit == {"1", "2", "3", "4"}
Space == {" ", "\n"}
Alphabet ==
    Upper \cup Lower \cup Digit \cup Space \cup
    {"*", ".", ")", "E", "Q", "x", "Correct Answer:", "correct answer:", "fence"}

\* str.lower() of one symbol, as re.IGNORECASE compares
Fold(ch) ==
    CASE ch = "A" -> "a"
      [] ch = "B" -> "b"
      [] ch = "C" -> "c"
      [] ch = "D" -> "d"
      [] ch = "E" -> "e"
      [] ch = "Q" -> "q"
      [] ch = "Correct Answer:" -> "correct answer:"
      [] OTHER -> ch

(***************************************************************************)
(* Pattern nodes                                                           *)
(***************************************************************************)
NoAlts == << >>
Lit(ch)      == [t |-> "one",    c |-> {ch}, n |-> 1, alts |-> NoAlts]
OneOf(c)     == [t |-> "one",    c |-> c,    n |-> 1, alts |-> NoAlts]
Lazy(c, n)   == [t |-> "lazy",   c |-> c,    n |-> n, alts |-> NoAlts]
Greedy(c, n) == [t |-> "greedy", c |-> c,    n |-> n, alts |-> NoAlts]
Open(g)      == [t |-> "open",   c |-> {},   n |-> g, alts |-> NoAlts]
Close(g)     == [t |-> "close",  c |-> {},   n |-> g, alts |-> NoAlts]
EndOfText    == [t |-> "eos",    c |-> {},   n |-> 0, alts |-> NoAlts]
LookAhead(a) == [t |-> "look",   c |-> {},   n |-> 0, alts |-> a]

\* no pattern of the source has more than six groups
MaxGroups == 6
NoCaps  == [g \in 1..MaxGroups |-> <<0, 0>>]
NoMatch == [ok |-> FALSE, start |-> 0, end |-> 0, caps |-> NoCaps]

(***************************************************************************)
(* The matcher.  For a pattern pat and a text s, oks[k][p] tells whether   *)
(* pat[k..] matches s from position p (the next symbol read is s[p]); no   *)
(* pattern of the source has a back-reference, so this does not depend on  *)
(* how p was reached.  The match re finds at p is the first in             *)
(* backtracking order: a lazy quantifier takes the shortest repetition     *)
(* after which the rest of the pattern matches, a greedy one the longest.  *)
(* Under re.IGNORECASE the text and the pattern are compared case-folded.  *)
(***************************************************************************)
Positions(s) == 1..(Len(s) + 1)

\* the first position of lo..hi that satisfies Stop
First(lo, hi, Stop(_)) ==
    CHOOSE q \in lo..hi : Stop(q) /\ \A r \in lo..(q - 1) : ~Stop(r)

\* a function on 1..n as the tuple of its values, each computed once
Tabulated(f) == f \o << >>

\* whether position q of s holds a symbol of the class of node nd
Has(nd, s, q) == q <= Len(s) /\ s[q] \in nd.c

\* the end of the run of symbols of the class of nd that starts at p
RunEnd(nd, s, p) == First(p, Len(s) + 1, LAMBDA q : ~Has(nd, s, q))

\* a lazy quantifier that may take no symbol matches at p if the rest of the
\* pattern does, or if s[p] is of its class and it matches at p + 1; done holds
\* the answers for the last Len(done) positions
RECURSIVE LazyOk(_, _, _, _)
LazyOk(nd, s, rest, done) ==
    IF Len(done) = Len(s) + 1 THEN done
    ELSE LET p == Len(s) + 1 - Len(done)
         IN  LazyOk(nd, s, rest,
                    <<rest[p] \/ (Has(nd, s, p) /\ done # << >> /\ done[1])>> \o done)

\* whether pat[k..] matches at each position, given rest, the same for
\* pat[k+1..]; looks[a] is that for alternative a of a lookahead
NodeOk(nd, s, rest, looks) ==
    CASE nd.t = "one" ->
           Tabulated([p \in Positions(s) |-> Has(nd, s, p) /\ rest[p + 1]])
      [] nd.t \in {"open", "close"} -> rest
      [] nd.t = "eos" ->
           \* $ without re.MULTILINE: the end, or just before a final newline
           Tabulated([p \in Positions(s) |->
               (p = Len(s) + 1 \/ (p = Len(s) /\ s[p] = "\n")) /\ rest[p]])
      [] nd.t = "look" ->
           Tabulated([p \in Positions(s) |->
               (\E a \in 1..Len(looks) : looks[a][p]) /\ rest[p]])
      [] nd.t = "lazy" ->
           LET lazy == LazyOk(nd, s, rest, << >>)
           IN  IF nd.n = 0 THEN lazy
               ELSE Tabulated([p \in Positions(s) |-> Has(nd, s, p) /\ lazy[p + 1]])
      [] nd.t = "greedy" ->
           Tabulated([p \in Positions(s) |->
               \E q \in (p + nd.n)..RunEnd(nd, s, p) : rest[q]])

\* oks for pat[k..] put before tail, which holds those of pat[k+1..] onwards
RECURSIVE OkTables(_, _, _, _)
OkTables(pat, k, s, tail) ==
    IF k = 0 \/ tail = << >> THEN tail
    ELSE LET nd    == pat[k]
             looks == [a \in 1..Len(nd.alts) |->
                          OkTables(nd.alts[a], Len(nd.alts[a]), s,
                                   <<[p \in Positions(s) |-> TRUE]>>)[1]]
         IN  OkTables(pat, k - 1, s, <<NodeOk(nd, s, tail[1], looks)>> \o tail)

\* the match of pat[k..] at p, where it is known to match: m carries the
\* groups entered so far
RECURSIVE Walk(_, _, _, _, _, _)
Walk(pat, s, oks, k, p, m) ==
    IF k > Len(pat) THEN [m EXCEPT !.end = p]
    ELSE LET nd == pat[k] IN
    CASE nd.t = "one"   -> Walk(pat, s, oks, k + 1, p + 1, m)
      [] nd.t = "open"  -> Walk(pat, s, oks, k + 1, p, [m EXCEPT !.caps[nd.n][1] = p])
      [] nd.t = "close" -> Walk(pat, s, oks, k + 1, p, [m EXCEPT !.caps[nd.n][2] = p])
      [] nd.t \in {"eos", "look"} -> Walk(pat, s, oks, k + 1, p, m)
      [] nd.t = "lazy" ->
           Walk(pat, s, oks, k + 1,
                First(p + nd.n, Len(s) + 1, LAMBDA q : oks[k + 1][q]), m)
      [] nd.t = "greedy" ->
           LET ends == {q \in (p + nd.n)..RunEnd(nd, s, p) : oks[k + 1][q]}
           IN  Walk(pat, s, oks, k + 1, CHOOSE q \in ends : \A r \in ends : r <= q, m)

FoldText(s)      == [i \in 1..Len(s) |-> Fold(s[i])]
FoldNode(nd)     ==
    [nd EXCEPT !.c = {Fold(x) : x \in nd.c},
               !.alts = [a \in 1..Len(nd.alts) |->
                            [j \in 1..Len(nd.alts[a]) |->
                                [nd.alts[a][j] EXCEPT
                                    !.c = {Fold(x) : x \in nd.alts[a][j].c}]]]]
FoldPattern(pat) == [k \in 1..Len(pat) |-> FoldNode(pat[k])]

\* pattern.match at every position p of s
MatchAll(pat, s, ic) ==
    LET fs  == IF ic THEN Tabulated(FoldText(s)) ELSE s
        fp  == IF ic THEN Tabulated(FoldPattern(pat)) ELSE pat
        oks == OkTables(fp, Len(fp), fs, <<Tabulated([p \in Positions(s) |-> TRUE])>>)
    IN  Tabulated([p \in Positions(s) |->
            IF oks[1][p]
            THEN Walk(fp, fs, oks, 1, p,
                      [ok |-> TRUE, start |-> p, end |-> p, caps |-> NoCaps])
            ELSE NoMatch])

\* group g of match m
Group(s, m, g) == SubSeq(s, m.caps[g][1], m.caps[g][2] - 1)

\* the non-overlapping matches in s, leftmost first, as finditer yields them,
\* from position pos on; t is MatchAll of the pattern (none of the patterns
\* here matches the empty string)
RECURSIVE ScanFrom(_, _, _)
ScanFrom(t, s, pos) ==
    IF \A q \in pos..(Len(s) + 1) : ~t[q].ok THEN << >>
    ELSE LET m == t[First(pos, Len(s) + 1, LAMBDA q : t[q].ok)]
         IN  <<m>> \o ScanFrom(t, s, m.end)

FindIter(pat, s, ic) == ScanFrom(MatchAll(pat, s, ic), s, 1)

\* re.findall of a pattern with several groups: one tuple of groups per match
FindAll(pat, ng, s, ic) ==
    LET ms == FindIter(pat, s, ic)
    IN  [i \in 1..Len(ms) |-> [g \in 1..ng |-> Group(s, ms[i], g)]]

\* re.search: the leftmost match, or NoMatch
Search(pat, s, ic) ==
    LET ms == FindIter(pat, s, ic) IN IF ms = << >> THEN NoMatch ELSE ms[1]

\* re.split of a pattern with one group: the text before the first match, then
\* for every match its group and the text up to the next match (or the end)
ReSplitDropsLast(pat, s, ic) ==
    LET ms == FindIter(pat, s, ic)
        n  == Len(ms)
        piece(j) == IF j = 0 THEN SubSeq(s, 1, ms[1].start - 1)
                    ELSE IF j = n THEN SubSeq(s, ms[n].end, Len(s))
                    ELSE SubSeq(s, ms[j].end, ms[j + 1].start - 1)
        all == [i \in 1..(2 * n + 1) |->
                   IF i % 2 = 1 THEN piece((i - 1) \div 2)
                   ELSE Group(s, ms[i \div 2], 1)]
    IN  IF n = 0 THEN <<s>>
        ELSE IF all[2 * n + 1] = << >> THEN SubSeq(all, 1, 2 * n) ELSE all

ReSplit(pat, s, ic) ==
    LET ms == FindIter(pat, s, ic)
        n  == Len(ms)
        piece(j) == IF j = 0 THEN SubSeq(s, 1, ms[1].start - 1)
                    ELSE IF j = n THEN SubSeq(s, ms[n].end, Len(s))
                    ELSE SubSeq(s, ms[j].end, ms[j + 1].start - 1)
    IN  IF n = 0 THEN <<s>>
        ELSE [i \in 1..(2 * n + 1) |->
                 IF i % 2 = 1 THEN piece((i - 1) \div 2)
                 ELSE Group(s, ms[i \div 2], 1)]

(***************************************************************************)
(* str.strip, str.join, str.split, str.replace                             *)
(***************************************************************************)
RECURSIVE LStrip(_), RStrip(_)
LStrip(s) == IF s # << >> /\ Head(s) \in Space THEN LStrip(Tail(s)) ELSE s
RStrip(s) ==
    IF s # << >> /\ s[Len(s)] \in Space THEN RStrip(SubSeq(s, 1, Len(s) - 1)) ELSE s
Strip(s) == RStrip(LStrip(s))

RECURSIVE Join(_, _)
Join(sep, parts) ==
    IF Len(parts) = 0 THEN << >>
    ELSE IF Len(parts) = 1 THEN parts[1]
    ELSE parts[1] \o sep \o Join(sep, Tail(parts))

\* s.split(ch) for a one-symbol separator; cur is the piece being read
RECURSIVE SplitAcc(_, _, _)
SplitAcc(s, ch, cur) ==
    IF s = << >> THEN <<cur>>
    ELSE IF Head(s) = ch THEN <<cur>> \o SplitAcc(Tail(s), ch, << >>)
    ELSE SplitAcc(Tail(s), ch, Append(cur, Head(s)))

SplitOn(s, ch) == SplitAcc(s, ch, << >>)

\* s.replace(ch, "") for a symbol ch
Remove(s, ch) == SelectSeq(s, LAMBDA x : x # ch)

(***************************************************************************)
(* The regular expressions of the source                                   *)
(***************************************************************************)
Marker == "Correct Answer:"

\* app.py:137   \*\*(\d+\.\s.*?)\*\*
HeaderPattern ==
    << Lit("*"), Lit("*"), Open(1), Greedy(Digit, 1), Lit("."), OneOf(Space),
       Lazy(Alphabet, 0), Close(1), Lit("*"), Lit("*") >>

\* OptionsAnswerPattern with an answer class that admits E as well
OptionsAnswerPatternAnyLetter ==
    << Open(1), Lit("A"), Lit(")"), Lazy(Alphabet, 1), Close(1),
       Greedy(Space, 0), Lit("*"), Lit("*"), Lit(Marker), Greedy(Space, 0),
       Open(2), OneOf(Upper \cup {"E"}), Close(2), Greedy(Space, 0) >>

\* app.py:145   (A\).+?)\s*\*\*Correct Answer:\s*([A-D])\s*
OptionsAnswerPattern ==
    << Open(1), Lit("A"), Lit(")"), Lazy(Alphabet, 1), Close(1),
       Greedy(Space, 0), Lit("*"), Lit("*"), Lit(Marker), Greedy(Space, 0),
       Open(2), OneOf(Upper), Close(2), Greedy(Space, 0) >>

\* OptionPattern without the end-of-text alternative of its lookahead
OptionPatternNoEnd ==
    << Open(1), OneOf(Upper), Lit(")"), Lazy(Alphabet, 1), Close(1),
       LookAhead(<< << Greedy(Space, 0), OneOf(Upper), Lit(")") >> >>) >>

\* app.py:152   ([A-D]\).+?)(?=\s*[A-D]\)|\s*$)
OptionPattern ==
    << Open(1), OneOf(Upper), Lit(")"), Lazy(Alphabet, 1), Close(1),
       LookAhead(<< << Greedy(Space, 0), OneOf(Upper), Lit(")") >>,
                    << Greedy(Space, 0), EndOfText >> >>) >>

\* BlockTail with a greedy .* for the question text
BlockTailGreedy ==
    << Greedy(Alphabet, 0), Close(1), Lit("*"), Lit("*"), Greedy(Space, 0),
       Open(2), Lit("A"), Lit(")"), Lazy(Alphabet, 1), Close(2), Greedy(Space, 0),
       Open(3), Lit("B"), Lit(")"), Lazy(Alphabet, 1), Close(3), Greedy(Space, 0),
       Open(4), Lit("C"), Lit(")"), Lazy(Alphabet, 1), Close(4), Greedy(Space, 0),
       Open(5), Lit("D"), Lit(")"), Lazy(Alphabet, 1), Close(5), Greedy(Space, 0),
       Lit("*"), Lit("*"), Lit(Marker), Greedy(Space, 0),
       Open(6), OneOf(Upper), Close(6), Greedy(Space, 0) >>

\* the part the patterns of app1.py and app2.py share, after the header's
\* number:   .*?)\*\*\s*(A\).+?)\s*(B\).+?)\s*(C\).+?)\s*(D\).+?)\s*
\*           \*\*Correct Answer:\s*([A-D])\s*
BlockTail ==
    << Lazy(Alphabet, 0), Close(1), Lit("*"), Lit("*"), Greedy(Space, 0),
       Open(2), Lit("A"), Lit(")"), Lazy(Alphabet, 1), Close(2), Greedy(Space, 0),
       Open(3), Lit("B"), Lit(")"), Lazy(Alphabet, 1), Close(3), Greedy(Space, 0),
       Open(4), Lit("C"), Lit(")"), Lazy(Alphabet, 1), Close(4), Greedy(Space, 0),
       Open(5), Lit("D"), Lit(")"), Lazy(Alphabet, 1), Close(5), Greedy(Space, 0),
       Lit("*"), Lit("*"), Lit(Marker), Greedy(Space, 0),
       Open(6), OneOf(Upper), Close(6), Greedy(Space, 0) >>

\* app1.py:187-195, header \*\*(\d+\.\s
question_pattern ==
    << Lit("*"), Lit("*"), Open(1), Greedy(Digit, 1), Lit("."), OneOf(Space) >>
    \o BlockTail

\* app2.py:94-102, header \*\*(\d+\. (a space, not \s)
pattern ==
    << Lit("*"), Lit("*"), Open(1), Greedy(Digit, 1), Lit("."), Lit(" ") >>
    \o BlockTail

(***************************************************************************)
(* The extractors                                                          *)
(***************************************************************************)
QuestionRecord(q, o, a) ==
    [question_text |-> q, options_text |-> o, correct_answer |-> a]

Returned(list) == [raised |-> FALSE, list |-> list]
IndexError     == [raised |-> TRUE,  list |-> << >>]

\* app.py:140-159, the loop body for Python index i of question_blocks
\* (question_blocks[i] of the source is question_blocks[i + 1] here)
RECURSIVE AppLoop(_, _)
AppLoop(question_blocks, i) ==
    IF i >= Len(question_blocks) THEN Returned(<< >>)
    ELSE IF i + 1 >= Len(question_blocks) THEN IndexError
    ELSE
      LET question_text_raw  == question_blocks[i + 1]
          content_block      == question_blocks[i + 2]
          options_and_answer == Search(OptionsAnswerPattern, content_block, FALSE)
          options_block      == Group(content_block, options_and_answer, 1)
          correct_answer     == Group(content_block, options_and_answer, 2)
          options_list       == FindAll(OptionPattern, 1, options_block, FALSE)
          options_text       ==
              Join(<<"\n">>, [j \in 1..Len(options_list) |-> Strip(options_list[j][1])])
          rest               == AppLoop(question_blocks, i + 2)
      IN  IF rest.raised THEN IndexError
          ELSE IF options_and_answer.ok
          THEN Returned(<<QuestionRecord(Strip(question_text_raw), options_text,
                                         Strip(correct_answer))>> \o rest.list)
          ELSE rest

\* parse_questions of app.py with a loop that starts at index 0
ParseQuestionsAppFromZero(text) == AppLoop(ReSplit(HeaderPattern, text, FALSE), 0)

\* app.py:132-161
ParseQuestionsApp(text) == AppLoop(ReSplit(HeaderPattern, text, FALSE), 1)

\* app1.py:199-209 and app2.py:111-115: one record per findall tuple
RecordsOf(matches) ==
    [i \in 1..Len(matches) |->
        QuestionRecord(Strip(matches[i][1]),
                       Join(<<"\n">>, [j \in 1..4 |-> Strip(matches[i][j + 1])]),
                       Strip(matches[i][6]))]

\* app1.py:182-211
ParseQuestionsApp1(text) == RecordsOf(FindAll(question_pattern, 6, text, TRUE))

\* CleanText removing the first fence only
CleanTextFirstOnly(text) ==
    LET fences == {i \in 1..Len(text) : text[i] = "fence"}
        first  == CHOOSE i \in fences : \A j \in fences : i <= j
    IN  IF fences = {} THEN Strip(text)
        ELSE Strip(SubSeq(text, 1, first - 1) \o SubSeq(text, first + 1, Len(text)))

\* app2.py:108   raw_text.replace(fence, "").strip()
CleanText(text) == Strip(Remove(text, "fence"))

\* app2.py:103-115: the page generate_questions builds from the response
Page(text) ==
    LET matches == FindAll(pattern, 6, text, TRUE)
    IN  IF matches = << >> /\ \E i \in 1..Len(text) : text[i] = "fence"
        THEN RecordsOf(FindAll(pattern, 6, CleanText(text), TRUE))
        ELSE RecordsOf(matches)

(***************************************************************************)
(* Responses.  A response is a sequence of at most MaxBlocks blocks, block *)
(* i numbered i, each of one of the shapes below, the whole optionally     *)
(* wrapped in a code fence.                                                *)
(***************************************************************************)
MaxBlocks == 2

ABCD == <<"A", "B", "C", "D">>

Shape(q, gap, labels, atext, marker, letter) ==
    [q |-> q, gap |-> gap, labels |-> labels, atext |-> atext,
     marker |-> marker, letter |-> letter]

Plain       == Shape(<<"Q">>, <<"\n">>, ABCD, <<"x">>, Marker, "B")
\* well-formed; option A holds "b)", a label to re.IGNORECASE only
Tricky      == Shape(<<"Q", "x">>, <<"\n", "\n">>, ABCD,
                     <<"x", "b", ")", "x">>, Marker, "D")
MissingD    == Shape(<<"Q">>, <<"\n">>, <<"A", "B", "C">>, <<"x">>, Marker, "B")
NoMarker    == Shape(<<"Q">>, <<"\n">>, ABCD, <<"x">>, "", "")
BadLetter   == Shape(<<"Q">>, <<"\n">>, ABCD, <<"x">>, Marker, "E")
LowerMarker == Shape(<<"Q">>, <<"\n">>, ABCD, <<"x">>, "correct answer:", "b")
LowerLabels == Shape(<<"Q">>, <<"\n">>, <<"a", "b", "c", "d">>, <<"x">>, Marker, "B")
\* a code fence stands between the header and option A
FenceGap    == Shape(<<"Q">>, <<"\n", "fence", "\n">>, ABCD, <<"x">>, Marker, "C")
\* the response stops right after the header
HeaderOnly  == Shape(<<"Q">>, << >>, << >>, <<"x">>, "", "")

Shapes == {Plain, Tricky, MissingD, NoMarker, BadLetter, LowerMarker,
           LowerLabels, FenceGap, HeaderOnly}

Numeral(i) == <<"1", "2", "3", "4">>[i]

\* the text between the emphasis markers of block i's header
HeaderText(b, i) == <<Numeral(i), ".", " ">> \o b.q

\* option line j of a block: the label, ")", a space and the option's text
OptionLine(b, j) ==
    <<b.labels[j], ")", " ">> \o (IF j = 1 THEN b.atext ELSE <<Numeral(j)>>)

RenderBlock(b, i) ==
    <<"*", "*">> \o HeaderText(b, i) \o <<"*", "*">> \o b.gap
    \o Join(<<"\n">>, [j \in 1..Len(b.labels) |-> OptionLine(b, j)])
    \o (IF b.marker = "" THEN << >>
        ELSE <<"\n", "*", "*", b.marker, " ", b.letter, "*", "*">>)

Body(bs) == Join(<<"\n", "\n">>, [i \in 1..Len(bs) |-> RenderBlock(bs[i], i)])

Wrap(text) == <<"fence", "\n">> \o text \o <<"\n", "fence">>

Render(bs, w) == IF w THEN Wrap(Body(bs)) ELSE Body(bs)

Responses == UNION {[1..n -> Shapes] : n \in 0..MaxBlocks}

\* the event of a script run in which no widget was used
NoEvent == [op |-> "none"]

\* st.session_state as the initialisation blocks leave it
\* (app.py:25-30, app1.py:27-34, app2.py:31-38)
FreshSession ==
    /\ generated_questions = << >>
    /\ all_generated_questions = << >>
    /\ current_page = 0
    /\ selected_questions = << >>
    /\ button_states = << >>
    /\ event = NoEvent

\* no session is running
NoSession == app = "none" /\ FreshSession

\* no document is being built
NoTable ==
    /\ num_questions = 0 /\ q_index = 0 /\ current_row = 0 /\ current_col = 0
    /\ cells = << >> /\ raised = FALSE

\* no extractor is being applied
NoParse ==
    /\ blocks = << >> /\ wrapped = FALSE /\ raw_text = << >>
    /\ fn = "none" /\ result = Returned(<< >>)

(***************************************************************************)
(* The specification: a response arrives, and one of the extractors is     *)
(* applied to it.                                                          *)
(***************************************************************************)
Init ==
    /\ blocks \in Responses
    /\ wrapped \in BOOLEAN
    /\ raw_text = Render(blocks, wrapped)
    /\ fn = "none"
    /\ result = Returned(<< >>)
    /\ NoSession /\ NoTable

ApplyParseApp ==
    /\ fn = "none"
    /\ fn' = "app"
    /\ result' = ParseQuestionsApp(raw_text)
    /\ UNCHANGED <<blocks, wrapped, raw_text, sessionVars, tableVars>>

ApplyParseApp1 ==
    /\ fn = "none"
    /\ fn' = "app1"
    /\ result' = Returned(ParseQuestionsApp1(raw_text))
    /\ UNCHANGED <<blocks, wrapped, raw_text, sessionVars, tableVars>>

ApplyPageApp2 ==
    /\ fn = "none"
    /\ fn' = "app2"
    /\ result' = Returned(Page(raw_text))
    /\ UNCHANGED <<blocks, wrapped, raw_text, sessionVars, tableVars>>

Next == ApplyParseApp \/ ApplyParseApp1 \/ ApplyPageApp2

Spec == Init /\ [][Next]_vars

(***************************************************************************)
(* Kinds of block                                                          *)
(***************************************************************************)
HasStars(s) == \E i \in 1..(Len(s) - 1) : s[i] = "*" /\ s[i + 1] = "*"

\* a label-like token A) .. D) inside a text
HasLabel(s) == \E i \in 1..(Len(s) - 1) : s[i] \in Upper /\ s[i + 1] = ")"

\* header, options A to D in order, marker with a letter of A to D, and only
\* whitespace between the header and option A
WellFormed(b) ==
    /\ b.labels = ABCD
    /\ b.marker = Marker
    /\ b.letter \in Upper
    /\ \A i \in 1..Len(b.gap) : b.gap[i] \in Space
    /\ ~HasStars(b.q) /\ ~HasStars(b.atext)

\* well-formed, and no text holds a label-like token
Tame(b) == WellFormed(b) /\ ~HasLabel(b.q) /\ ~HasLabel(b.atext)

Lines(text) == SplitOn(text, "\n")

\* the indices of the blocks satisfying Keep, in order
Kept(bs, Keep(_)) ==
    SelectSeq([i \in 1..Len(bs) |-> i], LAMBDA i : Keep(bs[i]))

(***************************************************************************)
(* Claims                                                                  *)
(***************************************************************************)
AllBlocks(Keep(_)) == \A i \in 1..Len(blocks) : Keep(blocks[i])

\* C1: applied to a response of n >= 0 well-formed blocks, the single-pattern
\* extractor of app1.py and of app2.py returns exactly n records, record i
\* holding block i's header text and answer letter, in input order.
C1_OneRecordPerBlock ==
    (fn \in {"app1", "app2"} /\ ~wrapped /\ AllBlocks(WellFormed))
    => /\ Len(result.list) = Len(blocks)
       /\ \A i \in 1..Len(blocks) :
            /\ result.list[i].question_text = HeaderText(blocks[i], i)
            /\ result.list[i].correct_answer = <<blocks[i].letter>>

C1_TwoBlocksApp1 ==
    /\ fn = "app1" /\ ~wrapped /\ blocks = <<Tricky, Plain>>
    /\ Len(result.list) = 2
    /\ result.list[2].correct_answer = <<"B">>

\* C2: applied to a response of one well-formed block whose texts hold no **
\* and no label-like token, parse_questions of app.py returns one record: the
\* text between the header's emphasis markers (numeral included), the four
\* option lines in order, and the letter after the marker.
C2_SingleBlockRecord ==
    (fn = "app" /\ ~wrapped /\ Len(blocks) = 1 /\ Tame(blocks[1]))
    => /\ ~result.raised
       /\ Len(result.list) = 1
       /\ result.list[1].question_text = HeaderText(blocks[1], 1)
       /\ Lines(result.list[1].options_text)
            = [j \in 1..4 |-> OptionLine(blocks[1], j)]
       /\ result.list[1].correct_answer = <<blocks[1].letter>>

C2_PlainParsed ==
    /\ fn = "app" /\ ~wrapped /\ blocks = <<Plain>>
    /\ Len(result.list) = 1
    /\ result.list[1].options_text
         = <<"A", ")", " ", "x", "\n", "B", ")", " ", "2", "\n",
             "C", ")", " ", "3", "\n", "D", ")", " ", "4">>

\* C3: parse_questions of app.py never emits a partial record: every record
\* it returns holds exactly four options, labelled A, B, C, D in order; a
\* block lacking option D but carrying a valid marker yields no record.
C3_FourOptionsAlways ==
    fn = "app" =>
       \A k \in 1..Len(result.list) :
          LET ls == Lines(result.list[k].options_text)
          IN  /\ Len(ls) = 4
              /\ \A j \in 1..4 : Len(ls[j]) >= 2 /\ ls[j][1] = ABCD[j]
                                                 /\ ls[j][2] = ")"

FewerOptions(b) ==
    /\ Len(b.labels) < 4 /\ b.labels = SubSeq(ABCD, 1, Len(b.labels))
    /\ b.marker = Marker /\ b.letter \in Upper

WellFormedOrFewer(b) == WellFormed(b) \/ FewerOptions(b)

\* C4: in app1.py, a block with fewer than four options standing among
\* well-formed blocks yields no record, and each well-formed block still
\* yields its own record, with its own question text and answer letter.
C4_MalformedSkipped ==
    (fn = "app1" /\ ~wrapped /\ AllBlocks(WellFormedOrFewer))
    => LET wf == Kept(blocks, WellFormed)
       IN  /\ Len(result.list) = Len(wf)
           /\ \A k \in 1..Len(wf) :
                /\ result.list[k].question_text = HeaderText(blocks[wf[k]], wf[k])
                /\ result.list[k].correct_answer = <<blocks[wf[k]].letter>>

\* options A to D present, but the marker is missing or its letter is not
\* one of A to D
BadMarker(b) ==
    /\ b.labels = ABCD
    /\ \A i \in 1..Len(b.gap) : b.gap[i] \in Space
    /\ b.marker = "" \/ (b.marker = Marker /\ b.letter \notin Upper \cup Lower)

TameOrBadMarker(b) == Tame(b) \/ BadMarker(b)

\* C5: in app.py, a block whose marker is missing, or whose answer letter is
\* not one of A to D, yields no record, and the well-formed blocks before and
\* after it still yield theirs.
C5_BadMarkerSkipped ==
    (fn = "app" /\ ~wrapped /\ AllBlocks(TameOrBadMarker))
    => LET wf == Kept(blocks, Tame)
       IN  /\ ~result.raised
           /\ Len(result.list) = Len(wf)
           /\ \A k \in 1..Len(wf) :
                /\ result.list[k].question_text = HeaderText(blocks[wf[k]], wf[k])
                /\ Lines(result.list[k].options_text)
                     = [j \in 1..4 |-> OptionLine(blocks[wf[k]], j)]
                /\ result.list[k].correct_answer = <<blocks[wf[k]].letter>>

C5_BadLetterThenPlain ==
    /\ fn = "app" /\ ~wrapped /\ blocks = <<BadLetter, Plain>>
    /\ Len(result.list) = 1
    /\ result.list[1].question_text = <<"2", ".", " ", "Q">>

\* C6: the correct_answer of every record app1.py and app2.py return is one
\* of the upper-case letters A, B, C, D, also when the response writes the
\* marker and its letter in lower case.
C6_AnswerUpperCase ==
    fn \in {"app1", "app2"} =>
       \A k \in 1..Len(result.list) :
          result.list[k].correct_answer \in {<<"A">>, <<"B">>, <<"C">>, <<"D">>}

\* well-formed once letter case is ignored
WellFormedAnyCase(b) ==
    /\ [j \in 1..Len(b.labels) |-> Fold(b.labels[j])] = <<"a", "b", "c", "d">>
    /\ Fold(b.marker) = Fold(Marker)
    /\ b.letter \in Upper \cup Lower
    /\ \A i \in 1..Len(b.gap) : b.gap[i] \in Space
    /\ ~HasLabel(b.q) /\ ~HasLabel(b.atext)

\* C7: parse_questions of app.py ignores letter case: a block whose option
\* labels or whose marker and letter are written in lower case yields one
\* record, as its upper-case form does.
C7_CaseInsensitive ==
    (fn = "app" /\ ~wrapped /\ AllBlocks(WellFormedAnyCase))
    => Len(result.list) = Len(blocks)

\* C8: the question_text of every record app1.py returns holds no ** and is
\* the text of a single header of the response, whatever stands between a
\* header and its option A.
C8_QuestionTextFromOneHeader ==
    fn = "app1" =>
       \A k \in 1..Len(result.list) :
          /\ ~HasStars(result.list[k].question_text)
          /\ \E i \in 1..Len(blocks) :
                result.list[k].question_text = HeaderText(blocks[i], i)

\* C9: in app2.py, a response wrapped in a code fence yields the page the
\* unwrapped response yields, whether the first pass matches or the fallback
\* on the fence-free text is taken.
C9_FenceWrappedSamePage ==
    (fn = "app2" /\ wrapped) => result.list = Page(Body(blocks))

\* the first pass finds nothing and the fallback finds a record
C9_FallbackTaken ==
    /\ fn = "app2" /\ wrapped
    /\ FindAll(pattern, 6, raw_text, TRUE) = << >>
    /\ Len(result.list) = 1

\* C10: parse_questions of app.py never raises: question_blocks[i + 1] is in
\* range for every i the loop visits, also when the response ends right
\* after a header.
C10_NeverRaises ==
    fn = "app" =>
       /\ ~result.raised
       /\ Len(ReSplit(HeaderPattern, raw_text, FALSE)) % 2 = 1

C10_EndsAfterHeader ==
    /\ fn = "app" /\ ~wrapped
    /\ blocks = <<Plain, HeaderOnly>>
    /\ ~result.raised
    /\ Len(result.list) = 1
    /\ ReSplit(HeaderPattern, raw_text, FALSE)[5] = << >>

\* a block with a header and nothing else
Unrecognizable(b) == b = HeaderOnly

\* C11: for the empty string, and for a response holding no recognizable
\* block, parse_questions of app.py and parse_questions of app1.py return the
\* empty sequence and raise nothing.
C11_NothingToExtract ==
    (fn \in {"app", "app1"} /\ AllBlocks(Unrecognizable))
    => result = Returned(<< >>)

C11_EmptyStringParsed ==
    /\ fn \in {"app", "app1"} /\ raw_text = << >>
    /\ result = Returned(<< >>)

(***************************************************************************)
(* Sessions.  A session is a sequence of script runs; each run handles the *)
(* one widget the user pressed and updates st.session_state.  Indices and  *)
(* dictionary keys are Python's (counted from 0).                          *)
(***************************************************************************)

\* two blocks of the same shape, both numbered 1
Twice(b) == RenderBlock(b, 1) \o <<"\n", "\n">> \o RenderBlock(b, 1)

\* the texts the model answers with; the last two hold no complete block
\* and nothing at all
SessionResponses ==
    << Body(<<Plain>>), Body(<<Tricky>>), Body(<<Tricky, Plain>>), Twice(Plain),
       Body(<<NoMarker>>), << >> >>

\* response r of a generation; 0 stands for the None that
\* generate_questions_raw returns when the API call fails
ResponseIds == 0..Len(SessionResponses)

\* Python's truth value of raw_response
Truthy(r) == r # 0 /\ SessionResponses[r] # << >>

\* what the extractors return for each response
ParsedApp  == Tabulated([r \in 1..Len(SessionResponses) |->
                             ParseQuestionsApp(SessionResponses[r])])
ParsedApp1 == Tabulated([r \in 1..Len(SessionResponses) |->
                             ParseQuestionsApp1(SessionResponses[r])])
ParsedApp2 == Tabulated([r \in 1..Len(SessionResponses) |->
                             Page(SessionResponses[r])])

\* dict.get(k), "None" for a missing key
Get(d, k) == IF k \in DOMAIN d THEN d[k] ELSE "None"

\* d[k] = v
Put(d, k, v) == [x \in DOMAIN d \cup {k} |-> IF x = k THEN v ELSE d[x]]

\* any(q['question_text'] == text for q in list)
HasText(list, text) == \E j \in 1..Len(list) : list[j].question_text = text

\* [q for q in list if q['question_text'] != text]
WithoutText(list, text) == SelectSeq(list, LAMBDA q : q.question_text # text)

\* list.pop(k): the list without its element of index k
Popped(list, k) == SubSeq(list, 1, k) \o SubSeq(list, k + 2, Len(list))

\* what a run showed: the widget handled, its arguments, the st.success /
\* st.warning / st.error notice and the raw response put on the page
Event(op, arg, notice, shown) ==
    [op |-> op, arg |-> arg, notice |-> notice, shown |-> shown]

(***************************************************************************)
(* app.py: one page of generated questions                                 *)
(***************************************************************************)
pagedVars == <<all_generated_questions, current_page>>

\* the arguments of a generation: the response and whether an API key and a
\* topic were entered
Inputs(api_key, topics_text, r) ==
    [r |-> r, api_key |-> api_key, topics_text |-> topics_text]

\* app.py:174-176 with the selection dropped as well
StoreParsedClearingSelection(r) ==
    /\ generated_questions' = ParsedApp[r].list
    /\ button_states' = << >>
    /\ selected_questions' = << >>

\* app.py:174-176, once a response is there
StoreParsed(r) ==
    /\ generated_questions' = ParsedApp[r].list
    /\ button_states' = << >>
    /\ UNCHANGED selected_questions

\* app.py:165-176, the "Generate Question Paper" button
GenerateButtonApp ==
    /\ app = "app"
    /\ \E api_key \in BOOLEAN, topics_text \in BOOLEAN :
         IF ~api_key \/ ~topics_text
         THEN /\ event' = Event("generate", Inputs(api_key, topics_text, 0),
                                "warning", << >>)
              /\ UNCHANGED <<generated_questions, button_states,
                             selected_questions>>
         ELSE \E r \in ResponseIds :
           LET args == Inputs(api_key, topics_text, r)
           IN  IF Truthy(r) /\ ParsedApp[r].raised
               THEN \* an exception in parse_questions ends the run
                    /\ event' = Event("generate", args, "exception", << >>)
                    /\ UNCHANGED <<generated_questions, button_states,
                                   selected_questions>>
               ELSE IF Truthy(r)
               THEN /\ StoreParsed(r)
                    /\ event' = Event("generate", args, "success", << >>)
               ELSE \* generate_questions_raw has shown st.error
                    \* (app.py:129) when the call failed
                    /\ event' = Event("generate", args,
                                      IF r = 0 THEN "error" ELSE "none", << >>)
                    /\ UNCHANGED <<generated_questions, button_states,
                                   selected_questions>>
    /\ UNCHANGED <<pagedVars, parseVars, tableVars, app>>

\* add_question_to_doc without the test for an equal question_text
AddQuestionToDocUnguarded(question_data, index) ==
    /\ selected_questions' =
          Append(selected_questions,
                 [question_text  |-> question_data.question_text,
                  options_text   |-> question_data.options_text,
                  correct_answer |-> question_data.correct_answer,
                  original_index |-> index])
    /\ button_states' = Put(button_states, index, "added")

\* app.py:33-40
AddQuestionToDoc(question_data, index) ==
    /\ selected_questions' =
          IF ~HasText(selected_questions, question_data.question_text)
          THEN Append(selected_questions,
                      [question_text  |-> question_data.question_text,
                       options_text   |-> question_data.options_text,
                       correct_answer |-> question_data.correct_answer,
                       original_index |-> index])
          ELSE selected_questions
    /\ button_states' = Put(button_states, index, "added")

\* app.py:42-49
RemoveQuestionFromDoc(index) ==
    /\ selected_questions' =
          WithoutText(selected_questions,
                      generated_questions[index + 1].question_text)
    /\ button_states' = Put(button_states, index, "initial")

\* app.py:75, the "Add to Document" button of question i
AddButtonApp ==
    /\ app = "app"
    /\ \E i \in 0..(Len(generated_questions) - 1) :
         /\ Get(button_states, i) # "added"
         /\ AddQuestionToDoc(generated_questions[i + 1], i)
         /\ event' = Event("add", [i |-> i], "none", << >>)
    /\ UNCHANGED <<generated_questions, pagedVars, parseVars, tableVars, app>>

\* app.py:73, the "Undo" button of question i
UndoButtonApp ==
    /\ app = "app"
    /\ \E i \in 0..(Len(generated_questions) - 1) :
         /\ Get(button_states, i) = "added"
         /\ RemoveQuestionFromDoc(i)
         /\ event' = Event("undo", [i |-> i], "none", << >>)
    /\ UNCHANGED <<generated_questions, pagedVars, parseVars, tableVars, app>>

\* app.py:51-57, called with any index from 0 to len(selected_questions)
RemoveFromPreviewAndResetButton ==
    /\ app = "app"
    /\ \E preview_index \in 0..Len(selected_questions) :
         /\ IF preview_index < Len(selected_questions)
            THEN LET question_to_remove == selected_questions[preview_index + 1]
                     original_index     == question_to_remove.original_index
                 IN  /\ selected_questions' = Popped(selected_questions, preview_index)
                     /\ button_states' =
                           IF original_index \in DOMAIN button_states
                           THEN Put(button_states, original_index, "initial")
                           ELSE button_states
            ELSE UNCHANGED <<selected_questions, button_states>>
         /\ event' = Event("remove_preview", [i |-> preview_index], "none", << >>)
    /\ UNCHANGED <<generated_questions, pagedVars, parseVars, tableVars, app>>

InitApp == app = "app" /\ FreshSession /\ NoParse /\ NoTable

NextApp ==
    \/ GenerateButtonApp
    \/ AddButtonApp
    \/ UndoButtonApp
    \/ RemoveFromPreviewAndResetButton

SpecApp == InitApp /\ [][NextApp]_vars

\* the step is a generation with an API key, a topic and a non-empty
\* response from which app.py extracts no record
EmptyExtractionApp ==
    /\ event'.op = "generate"
    /\ event'.arg.api_key /\ event'.arg.topics_text
    /\ Truthy(event'.arg.r)
    /\ ParsedApp[event'.arg.r].list = << >>

\* C13: in app.py, a generation whose response is non-empty but yields no
\* record is a failure shown to the user: it reports no success and does not
\* replace the generated questions by the empty list.
C13_EmptyExtractionIsFailure ==
    [][EmptyExtractionApp =>
          /\ event'.notice # "success"
          /\ generated_questions' = generated_questions]_vars

NoTwoEqualTexts(list) ==
    \A j, k \in 1..Len(list) :
       list[j].question_text = list[k].question_text => j = k

\* C14: in app.py, after any sequence of generate, add_question_to_doc,
\* remove_question_from_doc and remove_from_preview_and_reset_button,
\* selected_questions holds no two entries with the same question_text.
C14_SelectedTextsDistinct ==
    app = "app" => NoTwoEqualTexts(selected_questions)

\* two generated questions of equal text, both added, one entry selected
C14_EqualTextsAddedOnce ==
    /\ app = "app"
    /\ Len(generated_questions) = 2
    /\ generated_questions[1].question_text = generated_questions[2].question_text
    /\ Get(button_states, 0) = "added" /\ Get(button_states, 1) = "added"
    /\ Len(selected_questions) = 1

\* generated question i is still selected after the step
StillSelected(i) ==
    /\ i < Len(generated_questions')
    /\ HasText(selected_questions', generated_questions'[i + 1].question_text)

\* C17: in app.py, remove_from_preview_and_reset_button(k) resets only the
\* button of the question it removed: it never sets to 'initial' the button
\* of a generated question that is still selected, and for an out-of-range
\* k it changes nothing.
C17_ResetsOnlyRemoved ==
    [][event'.op = "remove_preview" =>
          /\ \A i \in DOMAIN button_states :
                (button_states[i] = "added" /\ button_states'[i] = "initial")
                => ~StillSelected(i)
          /\ event'.arg.i >= Len(selected_questions)
                => UNCHANGED <<selected_questions, button_states,
                               generated_questions>>]_vars

\* the step is a generation that returned a response
ResponseReturned ==
    /\ event'.op = "generate"
    /\ event'.arg.api_key /\ event'.arg.topics_text
    /\ Truthy(event'.arg.r)

\* C18: in app.py, a generation that returns a response replaces
\* generated_questions by the parsed records, empties button_states and
\* leaves selected_questions as it was; a generation without API key,
\* without topic or with a failed or empty response changes none of the
\* three.
C18_GenerationFrame ==
    [][event'.op = "generate" =>
          IF ResponseReturned
          THEN /\ generated_questions' = ParsedApp[event'.arg.r].list
               /\ button_states' = << >>
               /\ selected_questions' = selected_questions
          ELSE UNCHANGED <<generated_questions, button_states,
                           selected_questions>>]_vars

\* a generation has replaced the questions and emptied button_states while
\* a question of the generation before stays selected
C18_RegeneratedWithSelection ==
    /\ app = "app"
    /\ event.op = "generate" /\ event.notice = "success"
    /\ Len(generated_questions) = 2
    /\ button_states = << >>
    /\ Len(selected_questions) = 1
    /\ ~HasText(generated_questions, selected_questions[1].question_text)

(***************************************************************************)
(* app1.py and app2.py: pages of generated questions                       *)
(***************************************************************************)
MaxPages == 2

\* the responses met in sessions of app1.py and app2.py
PagedResponseIds == ResponseIds \ {1, 3}

\* the entry add_question_to_doc stores for question q_idx of page page_index
WithMeta(q, page_index, q_idx) ==
    [question_text  |-> q.question_text,
     options_text   |-> q.options_text,
     correct_answer |-> q.correct_answer,
     page_index     |-> page_index,
     original_index |-> q_idx]

\* AppendPage that stays on the page shown
AppendPageKeepingCurrent(page) ==
    /\ all_generated_questions' = Append(all_generated_questions, page)
    /\ UNCHANGED current_page

\* app1.py:225-226 and app2.py:118-119
AppendPage(page) ==
    /\ all_generated_questions' = Append(all_generated_questions, page)
    /\ current_page' = Len(all_generated_questions')  - 1

\* the empty page stored and shown like any other
StoreEmptyPage(r) ==
    /\ Len(all_generated_questions) < MaxPages
    /\ AppendPage(<< >>)
    /\ event' = Event("generate", [r |-> r], "success", << >>)

\* app1.py:229-231 and app2.py:122-125: no record was extracted
ReportParseFailure(r) ==
    /\ event' = Event("generate", [r |-> r], "error", SessionResponses[r])
    /\ UNCHANGED pagedVars

\* app1.py:214-231, the "Generate New Questions" button
GenerateButtonApp1 ==
    /\ app = "app1"
    /\ \E api_key \in BOOLEAN, topics_text \in BOOLEAN :
         IF ~api_key \/ ~topics_text
         THEN /\ event' = Event("generate", [r |-> 0], "warning", << >>)
              /\ UNCHANGED pagedVars
         ELSE \E r \in PagedResponseIds :
           LET args == [r |-> r]
           IN  IF ~Truthy(r)
               THEN /\ event' = Event("generate", args,
                                      IF r = 0 THEN "error" ELSE "none", << >>)
                    /\ UNCHANGED pagedVars
               ELSE IF ParsedApp1[r] # << >>
               THEN /\ Len(all_generated_questions) < MaxPages
                    /\ AppendPage(ParsedApp1[r])
                    /\ event' = Event("generate", args, "success", << >>)
               ELSE ReportParseFailure(r)
    /\ UNCHANGED <<selected_questions, button_states, generated_questions,
                   parseVars, tableVars, app>>

\* app2.py:54-127, generate_questions behind "Generate New Questions";
\* total is easy + medium + hard, and a failed API call raises
GenerateButtonApp2 ==
    /\ app = "app2"
    /\ \E api_key \in BOOLEAN, topics_text \in BOOLEAN, total \in {0, 8} :
         IF ~api_key \/ ~topics_text \/ total = 0
         THEN /\ event' = Event("generate", [r |-> 0], "warning", << >>)
              /\ UNCHANGED pagedVars
         ELSE \E r \in PagedResponseIds :
           LET args == [r |-> r]
           IN  IF r = 0
               THEN /\ event' = Event("generate", args, "error", << >>)
                    /\ UNCHANGED pagedVars
               ELSE IF ParsedApp2[r] # << >>
               THEN /\ Len(all_generated_questions) < MaxPages
                    /\ AppendPage(ParsedApp2[r])
                    /\ event' = Event("generate", args, "success", << >>)
               ELSE ReportParseFailure(r)
    /\ UNCHANGED <<selected_questions, button_states, generated_questions,
                   parseVars, tableVars, app>>

\* app1.py:86-89 and app2.py:158-161, the "Previous Page" button
PreviousPage ==
    /\ app \in {"app1", "app2"}
    /\ all_generated_questions # << >>
    /\ current_page > 0
    /\ current_page' = current_page - 1
    /\ event' = Event("previous", [i |-> current_page], "none", << >>)
    /\ UNCHANGED <<all_generated_questions, selected_questions, button_states,
                   generated_questions, parseVars, tableVars, app>>

\* app1.py:93-96 and app2.py:165-168, the "Next Page" button
NextPage ==
    /\ app \in {"app1", "app2"}
    /\ all_generated_questions # << >>
    /\ current_page < Len(all_generated_questions) - 1
    /\ current_page' = current_page + 1
    /\ event' = Event("next", [i |-> current_page], "none", << >>)
    /\ UNCHANGED <<all_generated_questions, selected_questions, button_states,
                   generated_questions, parseVars, tableVars, app>>

\* the questions display_questions lists (app1.py:100, app2.py:172)
CurrentPageQuestions ==
    IF all_generated_questions = << >> THEN << >>
    ELSE all_generated_questions[current_page + 1]

\* app2.py:191-199 with the button marked 'added' in every case, as
\* add_question_to_doc of app1.py does
PressAddApp2Always(q, key) ==
    /\ selected_questions' =
          IF ~HasText(selected_questions, q.question_text)
          THEN Append(selected_questions, WithMeta(q, key[1], key[2]))
          ELSE selected_questions
    /\ button_states' = Put(button_states, key, "added")

\* app2.py:191-199, the body of the "Add" button of the question at key
PressAddApp2(q, key) ==
    IF ~HasText(selected_questions, q.question_text)
    THEN /\ selected_questions' =
               Append(selected_questions, WithMeta(q, key[1], key[2]))
         /\ button_states' = Put(button_states, key, "added")
    ELSE UNCHANGED <<selected_questions, button_states>>

\* app1.py:37-48
AddQuestionToDocApp1(question_data, page_index, q_idx) ==
    /\ selected_questions' =
          IF ~HasText(selected_questions, question_data.question_text)
          THEN Append(selected_questions,
                      WithMeta(question_data, page_index, q_idx))
          ELSE selected_questions
    /\ button_states' = Put(button_states, <<page_index, q_idx>>, "added")

\* app1.py:50-60
RemoveQuestionFromDocApp1(page_index, q_idx) ==
    /\ selected_questions' =
          WithoutText(selected_questions,
                      all_generated_questions[page_index + 1][q_idx + 1].question_text)
    /\ button_states' = Put(button_states, <<page_index, q_idx>>, "initial")

\* app1.py:119-122, the "Add to Document" button of question i of the page
AddButtonApp1 ==
    /\ app = "app1"
    /\ \E i \in 0..(Len(CurrentPageQuestions) - 1) :
         /\ Get(button_states, <<current_page, i>>) # "added"
         /\ AddQuestionToDocApp1(CurrentPageQuestions[i + 1], current_page, i)
         /\ event' = Event("add", [i |-> i], "none", << >>)
    /\ UNCHANGED <<pagedVars, generated_questions, parseVars, tableVars, app>>

\* app1.py:115-118, the "Undo" button of question i of the page
UndoButtonApp1 ==
    /\ app = "app1"
    /\ \E i \in 0..(Len(CurrentPageQuestions) - 1) :
         /\ Get(button_states, <<current_page, i>>) = "added"
         /\ RemoveQuestionFromDocApp1(current_page, i)
         /\ event' = Event("undo", [i |-> i], "none", << >>)
    /\ UNCHANGED <<pagedVars, generated_questions, parseVars, tableVars, app>>

\* app2.py:190-199, the "Add" button of question i of the page
AddButtonApp2 ==
    /\ app = "app2"
    /\ \E i \in 0..(Len(CurrentPageQuestions) - 1) :
         /\ Get(button_states, <<current_page, i>>) # "added"
         /\ PressAddApp2(CurrentPageQuestions[i + 1], <<current_page, i>>)
         /\ event' = Event("add", [i |-> i], "none", << >>)
    /\ UNCHANGED <<pagedVars, generated_questions, parseVars, tableVars, app>>

\* app2.py:184-189, the "Undo" button of question i of the page
UndoButtonApp2 ==
    /\ app = "app2"
    /\ \E i \in 0..(Len(CurrentPageQuestions) - 1) :
         /\ Get(button_states, <<current_page, i>>) = "added"
         /\ selected_questions' =
               WithoutText(selected_questions,
                           CurrentPageQuestions[i + 1].question_text)
         /\ button_states' = Put(button_states, <<current_page, i>>, "initial")
         /\ event' = Event("undo", [i |-> i], "none", << >>)
    /\ UNCHANGED <<pagedVars, generated_questions, parseVars, tableVars, app>>

\* app2.py:222-225, the "Clear All Selected Questions" button
ClearAllApp2 ==
    /\ app = "app2"
    /\ selected_questions' = << >>
    /\ button_states' = << >>
    /\ event' = Event("clear", [i |-> 0], "none", << >>)
    /\ UNCHANGED <<pagedVars, generated_questions, parseVars, tableVars, app>>

InitPaged == app \in {"app1", "app2"} /\ FreshSession /\ NoParse /\ NoTable

NextPaged ==
    \/ GenerateButtonApp1
    \/ GenerateButtonApp2
    \/ PreviousPage
    \/ NextPage
    \/ AddButtonApp1
    \/ UndoButtonApp1
    \/ AddButtonApp2
    \/ UndoButtonApp2
    \/ ClearAllApp2

SpecPaged == InitPaged /\ [][NextPaged]_vars

\* the step is a generation in which extraction ran and gave no record
EmptyExtractionPaged ==
    /\ event'.op = "generate" /\ event'.notice # "warning"
    /\ event'.arg.r # 0
    /\ IF app = "app1"
       THEN Truthy(event'.arg.r) /\ ParsedApp1[event'.arg.r] = << >>
       ELSE ParsedApp2[event'.arg.r] = << >>

\* C12: in app1.py and app2.py, when extraction of a response yields no
\* record the run shows an error with the raw response and leaves
\* all_generated_questions, current_page, selected_questions and
\* button_states as they were; so every stored page is non-empty.
C12_EmptyExtractionReported ==
    [][/\ EmptyExtractionPaged =>
            /\ event'.notice = "error"
            /\ event'.shown = SessionResponses[event'.arg.r]
            /\ UNCHANGED <<all_generated_questions, current_page,
                           selected_questions, button_states>>
       /\ \A p \in 1..Len(all_generated_questions') :
             all_generated_questions'[p] # << >>]_vars

\* a failed extraction was reported while a page and a selection exist
C12_FailureShownWithRaw ==
    /\ app \in {"app1", "app2"}
    /\ event.op = "generate" /\ event.notice = "error"
    /\ event.shown = SessionResponses[5]
    /\ Len(all_generated_questions) = 1
    /\ selected_questions # << >>

\* the question_text of the generated question at key (page, i)
TextAt(key) == all_generated_questions[key[1] + 1][key[2] + 1].question_text

AddedKeys == {key \in DOMAIN button_states : button_states[key] = "added"}

\* C15: in app1.py, whenever button_states[(page, i)] is 'added', the
\* question all_generated_questions[page][i] is present, by question_text,
\* in selected_questions, also when two generated questions have the same
\* question_text.
C15_AddedMeansSelected ==
    app = "app1" =>
       \A key \in AddedKeys : HasText(selected_questions, TextAt(key))

\* the keys in state 'added' whose question has the given text
AddedKeysOf(text) == {key \in AddedKeys : TextAt(key) = text}

\* 'added' only for selected questions, and one 'added' key per selected text
ButtonsMatchSelection ==
    /\ \A key \in AddedKeys : HasText(selected_questions, TextAt(key))
    /\ \A j \in 1..Len(selected_questions) :
          Cardinality(AddedKeysOf(selected_questions[j].question_text)) = 1

\* the step is a press of Add on a question whose text is already selected
AddOfSelectedText ==
    /\ event'.op = "add"
    /\ HasText(selected_questions,
               CurrentPageQuestions[event'.arg.i + 1].question_text)

\* C16: in app2.py, after any sequence of generations, Add, Undo and
\* "Clear All Selected Questions", a button is 'added' only if its question
\* is selected (by question_text), every selected question_text has exactly
\* one key in state 'added', and Add on a question whose text is already
\* selected changes neither selected_questions nor button_states.
C16_ButtonsFollowSelection ==
    [][app = "app2" =>
          /\ ButtonsMatchSelection'
          /\ AddOfSelectedText =>
                UNCHANGED <<selected_questions, button_states>>]_vars

\* Add was pressed on the second of two questions of equal text while the
\* first is selected, and only the first is 'added'
C16_SecondAddIgnored ==
    /\ app = "app2"
    /\ event.op = "add" /\ event.arg.i = 1
    /\ Len(CurrentPageQuestions) = 2
    /\ CurrentPageQuestions[1].question_text = CurrentPageQuestions[2].question_text
    /\ AddedKeys = {<<current_page, 0>>}
    /\ Len(selected_questions) = 1

\* current_page is 0 without pages and the index of a page otherwise
CurrentPageInRange ==
    IF all_generated_questions = << >> THEN current_page = 0
    ELSE 0 <= current_page /\ current_page < Len(all_generated_questions)

\* the pages before the step are the first pages after it
PagesOnlyAppended ==
    /\ Len(all_generated_questions) <= Len(all_generated_questions')
    /\ SubSeq(all_generated_questions', 1, Len(all_generated_questions))
          = all_generated_questions

\* the step is a successful generation
PageGenerated == event'.op = "generate" /\ event'.notice = "success"

\* one page was appended and it is the page shown
NewPageShown ==
    /\ Len(all_generated_questions') = Len(all_generated_questions) + 1
    /\ current_page' = Len(all_generated_questions') - 1

\* C19: in app1.py and app2.py, current_page is 0 while
\* all_generated_questions is empty and an index of it otherwise; pages are
\* only ever appended; right after a successful generation current_page is
\* the index of the page just appended.
C19_CurrentPageValid ==
    [][(app \in {"app1", "app2"}) =>
          /\ CurrentPageInRange'
          /\ PagesOnlyAppended
          /\ PageGenerated => NewPageShown]_vars

\* a second page was appended while the first page was shown
C19_SecondPageShown ==
    /\ app \in {"app1", "app2"}
    /\ event.op = "generate" /\ event.notice = "success"
    /\ Len(all_generated_questions) = 2
    /\ current_page = 1

(***************************************************************************)
(* app1.py: the two-column layout of create_word_document_from_selection   *)
(***************************************************************************)
MaxSelected == 16

\* app1.py:289
questions_per_column == (num_questions + 1) \div 2

\* main_table has questions_per_column rows and 2 columns (app1.py:292);
\* cell(row, col) of a table raises IndexError outside of it
InTable(row, col) ==
    /\ 0 <= row /\ row < questions_per_column
    /\ 0 <= col /\ col < 2

\* app1.py:315-334, one iteration of the loop over selected_questions
PlaceQuestion ==
    /\ app = "none"
    /\ ~raised /\ q_index < num_questions
    /\ IF ~InTable(current_row, current_col)
       THEN /\ raised' = TRUE
            /\ UNCHANGED <<q_index, current_row, current_col, cells>>
       ELSE /\ cells' = Append(cells, <<current_row, current_col>>)
            /\ IF current_col = 0 /\ q_index < questions_per_column - 1
               THEN current_col' = 1 /\ UNCHANGED current_row
               ELSE current_col' = 0 /\ current_row' = current_row + 1
            /\ q_index' = q_index + 1
            /\ UNCHANGED raised
    /\ UNCHANGED <<num_questions, sessionVars, parseVars>>

\* the document is built for num_questions >= 1 selected questions
\* (app1.py:240, 288, 312-313)
InitTable ==
    /\ num_questions \in 1..MaxSelected
    /\ q_index = 0 /\ current_row = 0 /\ current_col = 0
    /\ cells = << >> /\ raised = FALSE
    /\ NoSession /\ NoParse

NextTable == PlaceQuestion

SpecTable == InitTable /\ [][NextTable]_vars

\* C20: in create_word_document_from_selection of app1.py, for every number
\* n >= 1 of selected questions, each question is placed in a cell of its
\* own inside the table: current_row < (n + 1) // 2 and current_col < 2 at
\* every main_table.cell access, and no IndexError is raised.
C20_CellsInsideTable ==
    /\ ~raised
    /\ q_index < num_questions => InTable(current_row, current_col)
    /\ \A j, k \in 1..Len(cells) : cells[j] = cells[k] => j = k

====
